---- MODULE Spec2Model ----
(***************************************************************************)
(* Model of scripts/spotlight_stub.c, the cwm Spotlight stub: main reads a *)
(* command from cwm_command.txt next to the executable, sends it to the    *)
(* cwm daemon over ~/.cwm/cwm.sock and reports the daemon's answer.        *)
(*                                                                         *)
(* C strings are sequences of one-character strings without the NUL byte;  *)
(* the literal messages of the source are kept as the sequence of their    *)
(* lines (the source separates them with the two characters \n).           *)
(***************************************************************************)
EXTENDS Integers, Sequences, FiniteSets, TLC

VARIABLES
    exe_ok,        \* environment: _NSGetExecutablePath succeeds
    file,          \* environment: content of cwm_command.txt, or NoFile
    home,          \* environment: value of HOME, or Unset
    sock_exists,   \* environment: the socket path exists on disk
    daemon,        \* environment: what the peer does after the request
    pc,            \* position of main
    command,       \* main's command buffer
    socket_path,   \* main's socket_path buffer
    sock,          \* state of the descriptor of send_to_daemon
    timeout_set,   \* SO_RCVTIMEO is in force on the descriptor
    request,       \* bytes handed to send
    response,      \* main's response buffer
    received,      \* bytes stored by recv
    ops,           \* system calls made on sockets and the socket path, in order,
                   \* each with its return value
    shown,         \* presentation calls made, in order
    exit_code      \* value returned by main, -1 while running

vars == <<exe_ok, file, home, sock_exists, daemon, pc, command, socket_path, sock,
          timeout_set, request, received, response, ops, shown, exit_code>>

----------------------------------------------------------------------------
(* Program constants *)

MAX_CMD_LEN == 4096
MAX_PATH_LEN == 2048

CR == "\r"
LF == "\n"
QUOTE == "\""
SPACE == " "
COLON == ":"

SOCKET_PATH_TEMPLATE == <<"/", ".", "c", "w", "m", "/", "c", "w", "m", ".", "s", "o", "c", "k">>

ERROR_MARKER == <<QUOTE, "e", "r", "r", "o", "r", QUOTE>>
MESSAGE_MARKER == <<QUOTE, "m", "e", "s", "s", "a", "g", "e", QUOTE>>

TITLE == "cwm Error"
MSG_LOCATE == <<"Failed to locate command file">>
MSG_READ == <<"Failed to read command file">>
MSG_SOCKET_PATH == <<"Failed to determine socket path">>
MSG_NOT_RUNNING == <<"cwm daemon is not running.", "", "Start it with:",
                     "  cwm daemon start", "", "Or enable auto-start:",
                     "  cwm daemon install">>
MSG_CONNECT == <<"Failed to connect to cwm daemon.", "", "Try restarting it:",
                 "  cwm daemon stop", "  cwm daemon start">>
MSG_FAILED == <<"Command failed">>

----------------------------------------------------------------------------
(* Bounds of the explored inputs *)

MaxLine == 2        \* characters of the first line of a short command file
MaxParts == 3       \* tokens of a free-form daemon reply
MaxMsgLen == 2      \* characters of the message value of a well-formed reply

NoFile == <<"<no file>">>
Unset == <<"<unset>">>

Min(a, b) == IF a < b THEN a ELSE b

Fill(n) == [i \in 1..n |-> "a"]

RECURSIVE SeqsUpTo(_, _)
SeqsUpTo(S, n) ==
    IF n = 0 THEN {<<>>}
    ELSE LET shorter == SeqsUpTo(S, n - 1)
         IN  shorter \cup {Append(s, c) : s \in shorter, c \in S}

RECURSIVE Concat(_)
Concat(ss) == IF ss = <<>> THEN <<>> ELSE Head(ss) \o Concat(Tail(ss))

\* command files: short ones, a first line of free characters followed by
\* nothing, a line ending or a second line, and ones around the buffer size
LineChars == {"a", SPACE, CR}
FileEndings == {<<>>, <<LF>>, <<CR, LF>>, <<LF, "a">>}
ShortFiles == {l \o e : l \in SeqsUpTo(LineChars, MaxLine), e \in FileEndings}
LongTails == {<<>>, <<"a">>, <<LF>>, <<CR, LF>>, <<"a", LF>>, <<"a", "a">>,
              <<"a", CR, LF>>, <<CR, "a", CR, LF>>}
LongFiles == {Fill(MAX_CMD_LEN - 2) \o t : t \in LongTails}
Files == ShortFiles \cup LongFiles

Homes == {Unset, <<>>, <<"/", "h">>}

Tokens == {ERROR_MARKER, MESSAGE_MARKER, <<COLON>>, <<QUOTE>>}
TokenReplies == {Concat(ts) : ts \in SeqsUpTo(Tokens, MaxParts)}
MsgValues == SeqsUpTo({"x", SPACE}, MaxMsgLen)
Field(X) == MESSAGE_MARKER \o <<COLON, SPACE, QUOTE>> \o X \o <<QUOTE>>
FieldReplies ==
    {<<"{">> \o ERROR_MARKER \o <<COLON, "1", ",">> \o Field(X) \o post :
        X \in MsgValues,
        post \in {<<>>, <<"}">>, <<",", QUOTE, "c", QUOTE, COLON, "1", "}">>}}
    \cup {<<"{">> \o Field(X) \o <<",">> \o ERROR_MARKER \o <<COLON, "1", "}">> :
        X \in MsgValues}
Replies == TokenReplies \cup FieldReplies \cup {Fill(MAX_CMD_LEN)}

----------------------------------------------------------------------------
(* C library functions *)

\* snprintf(buf, size, ...): the formatted text cut to size - 1 characters
Snprintf(size, text) == SubSeq(text, 1, Min(Len(text), size - 1))

\* fgets(buf, size, f) on a file positioned at its start: the characters up to
\* and including the first newline, at most size - 1 of them
Fgets(size, content) ==
    LET lim == Min(Len(content), size - 1)
        nl  == {i \in 1..lim : content[i] = LF}
    IN  IF nl = {} THEN SubSeq(content, 1, lim)
        ELSE SubSeq(content, 1, CHOOSE i \in nl : \A j \in nl : i <= j)

\* strstr(s + from - 1, needle): index in s of the first occurrence, 0 if none
Strstr(s, from, needle) ==
    LET hits == {i \in from..(Len(s) - Len(needle) + 1) :
                    SubSeq(s, i, i + Len(needle) - 1) = needle}
    IN  IF hits = {} THEN 0 ELSE CHOOSE i \in hits : \A j \in hits : i <= j

\* strchr(s + from - 1, c): index in s of the first c, 0 if none
Strchr(s, from, c) == Strstr(s, from, <<c>>)

\* mutant of TrimNewline: only line feeds are trimmed
RECURSIVE TrimNewline_OnlyLF(_)
TrimNewline_OnlyLF(s) ==
    IF Len(s) > 0 /\ s[Len(s)] = LF
    THEN TrimNewline_OnlyLF(SubSeq(s, 1, Len(s) - 1))
    ELSE s

\* the trimming loop of read_command
RECURSIVE TrimNewline(_)
TrimNewline(s) ==
    IF Len(s) > 0 /\ (s[Len(s)] = LF \/ s[Len(s)] = CR)
    THEN TrimNewline(SubSeq(s, 1, Len(s) - 1))
    ELSE s

\* mutant of read_command: the result of fgets is not checked
read_command_UncheckedFgets(content, out_size) ==
    IF content = NoFile THEN [rc |-> -1, out_cmd |-> <<>>]
    ELSE [rc |-> 0, out_cmd |-> TrimNewline(Fgets(out_size, content))]

\* mutant of read_command: a first line that is blank after trimming is rejected
read_command_RejectsBlank(content, out_size) ==
    IF content = NoFile THEN [rc |-> -1, out_cmd |-> <<>>]
    ELSE IF TrimNewline(Fgets(out_size, content)) = <<>> THEN [rc |-> -1, out_cmd |-> <<>>]
    ELSE [rc |-> 0, out_cmd |-> TrimNewline(Fgets(out_size, content))]

\* read_command(cmd_path, out_cmd, out_size), content being the file at cmd_path
read_command(content, out_size) ==
    IF content = NoFile THEN [rc |-> -1, out_cmd |-> <<>>]
    ELSE IF Fgets(out_size, content) = <<>> THEN [rc |-> -1, out_cmd |-> <<>>]
    ELSE [rc |-> 0, out_cmd |-> TrimNewline(Fgets(out_size, content))]

\* mutant of get_socket_path: a missing HOME is formatted as the empty string
get_socket_path_NoHomeCheck(h, out_size) ==
    [rc |-> 0,
     out_path |-> Snprintf(out_size, (IF h = Unset THEN <<>> ELSE h) \o SOCKET_PATH_TEMPLATE)]

\* get_socket_path(out_path, out_size), h being getenv("HOME")
get_socket_path(h, out_size) ==
    IF h = Unset THEN [rc |-> -1, out_path |-> <<>>]
    ELSE [rc |-> 0, out_path |-> Snprintf(out_size, h \o SOCKET_PATH_TEMPLATE)]

\* the buffer send_to_daemon hands to send
cmd_with_newline(cmd) == Snprintf(MAX_CMD_LEN, cmd \o <<LF>>)

\* the skipping loop of main: first index from i on that holds neither a space
\* nor a quote, Len(s) + 1 when the terminator is reached
RECURSIVE SkipSpacesQuotes(_, _)
SkipSpacesQuotes(s, i) ==
    IF i <= Len(s) /\ (s[i] = SPACE \/ s[i] = QUOTE)
    THEN SkipSpacesQuotes(s, i + 1)
    ELSE i

\* mutant of check_response: the generic failure falls through to return 0
check_response_FallThrough(resp) ==
    IF Strstr(resp, 1, ERROR_MARKER) = 0
    THEN [code |-> 0, notify |-> <<>>, response |-> resp]
    ELSE LET m == Strstr(resp, 1, MESSAGE_MARKER)
             c == IF m = 0 THEN 0 ELSE Strchr(resp, m, COLON)
             b == IF c = 0 THEN 0 ELSE SkipSpacesQuotes(resp, c + 1)
             e == IF c = 0 THEN 0 ELSE Strchr(resp, b, QUOTE)
         IN  IF e # 0
             THEN [code |-> 1, notify |-> <<SubSeq(resp, b, e - 1)>>,
                   response |-> SubSeq(resp, 1, e - 1)]
             ELSE [code |-> 0, notify |-> <<MSG_FAILED>>, response |-> resp]

\* mutant of check_response: the error test looks for the message marker
check_response_WrongMarker(resp) ==
    IF Strstr(resp, 1, MESSAGE_MARKER) = 0
    THEN [code |-> 0, notify |-> <<>>, response |-> resp]
    ELSE LET m == Strstr(resp, 1, MESSAGE_MARKER)
             c == IF m = 0 THEN 0 ELSE Strchr(resp, m, COLON)
             b == IF c = 0 THEN 0 ELSE SkipSpacesQuotes(resp, c + 1)
             e == IF c = 0 THEN 0 ELSE Strchr(resp, b, QUOTE)
         IN  IF e # 0
             THEN [code |-> 1, notify |-> <<SubSeq(resp, b, e - 1)>>,
                   response |-> SubSeq(resp, 1, e - 1)]
             ELSE [code |-> 1, notify |-> <<MSG_FAILED>>, response |-> resp]

\* mutant of check_response: no notification when the message cannot be parsed
check_response_NoFallback(resp) ==
    IF Strstr(resp, 1, ERROR_MARKER) = 0
    THEN [code |-> 0, notify |-> <<>>, response |-> resp]
    ELSE LET m == Strstr(resp, 1, MESSAGE_MARKER)
             c == IF m = 0 THEN 0 ELSE Strchr(resp, m, COLON)
             b == IF c = 0 THEN 0 ELSE SkipSpacesQuotes(resp, c + 1)
             e == IF c = 0 THEN 0 ELSE Strchr(resp, b, QUOTE)
         IN  IF e # 0
             THEN [code |-> 1, notify |-> <<SubSeq(resp, b, e - 1)>>,
                   response |-> SubSeq(resp, 1, e - 1)]
             ELSE [code |-> 1, notify |-> <<>>, response |-> resp]

\* the response check of main: the exit code, the notification message and
\* the response buffer, which is cut where the message ends
check_response(resp) ==
    IF Strstr(resp, 1, ERROR_MARKER) = 0
    THEN [code |-> 0, notify |-> <<>>, response |-> resp]
    ELSE LET m == Strstr(resp, 1, MESSAGE_MARKER)
             c == IF m = 0 THEN 0 ELSE Strchr(resp, m, COLON)
             b == IF c = 0 THEN 0 ELSE SkipSpacesQuotes(resp, c + 1)
             e == IF c = 0 THEN 0 ELSE Strchr(resp, b, QUOTE)
         IN  IF e # 0
             THEN [code |-> 1, notify |-> <<SubSeq(resp, b, e - 1)>>,
                   response |-> SubSeq(resp, 1, e - 1)]
             ELSE [code |-> 1, notify |-> <<MSG_FAILED>>, response |-> resp]

show_error_dialog(title, message) ==
    shown' = Append(shown, [kind |-> "dialog", title |-> title, message |-> message])

show_notification(title, message) ==
    shown' = Append(shown, [kind |-> "notification", title |-> title, message |-> message])

\* one system call: its name and its return value
Call(op, rc) == [op |-> op, rc |-> rc]

Return(code) == pc' = "exit" /\ exit_code' = code

env == <<exe_ok, file, home, sock_exists, daemon>>

----------------------------------------------------------------------------
Init ==
    /\ exe_ok \in BOOLEAN
    /\ file \in Files \cup {NoFile}
    /\ home \in Homes
    /\ sock_exists \in BOOLEAN
    /\ daemon \in {"reply", "close", "reset", "silent"}
    /\ pc = "get_command_file_path"
    /\ command = <<>>
    /\ socket_path = <<>>
    /\ sock = "none"
    /\ timeout_set = FALSE
    /\ request = <<>>
    /\ received = <<>>
    /\ response = <<>>
    /\ ops = <<>>
    /\ shown = <<>>
    /\ exit_code = -1

\* main: get command file path
LocateCommandFile ==
    /\ pc = "get_command_file_path"
    /\ IF exe_ok
       THEN pc' = "read_command" /\ UNCHANGED <<shown, exit_code>>
       ELSE show_error_dialog(TITLE, MSG_LOCATE) /\ Return(1)
    /\ UNCHANGED <<env, command, socket_path, sock, timeout_set, request, received, response, ops>>

\* main: read command
ReadCommand ==
    /\ pc = "read_command"
    /\ LET r == read_command(file, MAX_CMD_LEN)
       IN  IF r.rc = 0
           THEN command' = r.out_cmd /\ pc' = "get_socket_path"
                /\ UNCHANGED <<shown, exit_code>>
           ELSE show_error_dialog(TITLE, MSG_READ) /\ Return(1)
                /\ UNCHANGED command
    /\ UNCHANGED <<env, socket_path, sock, timeout_set, request, received, response, ops>>

\* main: get socket path
GetSocketPath ==
    /\ pc = "get_socket_path"
    /\ LET r == get_socket_path(home, MAX_PATH_LEN)
       IN  IF r.rc = 0
           THEN socket_path' = r.out_path /\ pc' = "access"
                /\ UNCHANGED <<shown, exit_code>>
           ELSE show_error_dialog(TITLE, MSG_SOCKET_PATH) /\ Return(1)
                /\ UNCHANGED socket_path
    /\ UNCHANGED <<env, command, sock, timeout_set, request, received, response, ops>>

\* mutant of Access: a missing socket is reported as a connection failure
Access_GenericMessage ==
    /\ pc = "access"
    /\ ops' = Append(ops, Call("access", IF sock_exists THEN 0 ELSE -1))
    /\ IF sock_exists
       THEN pc' = "socket" /\ UNCHANGED <<shown, exit_code>>
       ELSE show_error_dialog(TITLE, MSG_CONNECT) /\ Return(1)
    /\ UNCHANGED <<env, command, socket_path, sock, timeout_set, request, received, response>>

\* main: check if socket exists
Access ==
    /\ pc = "access"
    /\ ops' = Append(ops, Call("access", IF sock_exists THEN 0 ELSE -1))
    /\ IF sock_exists
       THEN pc' = "socket" /\ UNCHANGED <<shown, exit_code>>
       ELSE show_error_dialog(TITLE, MSG_NOT_RUNNING) /\ Return(1)
    /\ UNCHANGED <<env, command, socket_path, sock, timeout_set, request, received, response>>

\* send_to_daemon: socket(); on failure main reports the connection failure
Socket ==
    /\ pc = "socket"
    /\ \E ok \in BOOLEAN :
          IF ok
          THEN /\ ops' = Append(ops, Call("socket", 3))
               /\ sock' = "open"
               /\ pc' = "connect"
               /\ UNCHANGED <<shown, exit_code>>
          ELSE /\ ops' = Append(ops, Call("socket", -1))
               /\ show_error_dialog(TITLE, MSG_CONNECT)
               /\ Return(1)
               /\ UNCHANGED sock
    /\ UNCHANGED <<env, command, socket_path, timeout_set, request, received, response>>

\* mutant of Connect: the failure is reported with a notification
Connect_Notifies ==
    /\ pc = "connect"
    /\ \E ok \in BOOLEAN :
          IF ok
          THEN /\ ops' = Append(ops, Call("connect", 0))
               /\ pc' = "setsockopt"
               /\ UNCHANGED <<sock, shown, exit_code>>
          ELSE /\ ops' = ops \o <<Call("connect", -1), Call("close", 0)>>
               /\ sock' = "closed"
               /\ show_notification(TITLE, MSG_CONNECT)
               /\ Return(1)
    /\ UNCHANGED <<env, command, socket_path, timeout_set, request, received, response>>

\* mutant of Connect: the result of connect is not looked at
Connect_IgnoresFailure ==
    /\ pc = "connect"
    /\ \E ok \in BOOLEAN :
          /\ ops' = Append(ops, Call("connect", IF ok THEN 0 ELSE -1))
          /\ pc' = "setsockopt"
          /\ UNCHANGED <<sock, shown, exit_code>>
    /\ UNCHANGED <<env, command, socket_path, timeout_set, request, received, response>>

\* send_to_daemon: connect(); on failure close and fail
Connect ==
    /\ pc = "connect"
    /\ \E ok \in BOOLEAN :
          IF ok
          THEN /\ ops' = Append(ops, Call("connect", 0))
               /\ pc' = "setsockopt"
               /\ UNCHANGED <<sock, shown, exit_code>>
          ELSE /\ ops' = ops \o <<Call("connect", -1), Call("close", 0)>>
               /\ sock' = "closed"
               /\ show_error_dialog(TITLE, MSG_CONNECT)
               /\ Return(1)
    /\ UNCHANGED <<env, command, socket_path, timeout_set, request, received, response>>

\* send_to_daemon: set receive timeout; the result of setsockopt is not looked at
Setsockopt ==
    /\ pc = "setsockopt"
    /\ \E ok \in BOOLEAN :
          /\ ops' = Append(ops, Call("setsockopt", IF ok THEN 0 ELSE -1))
          /\ timeout_set' = ok
    /\ pc' = "send"
    /\ UNCHANGED <<env, command, socket_path, sock, request, received, response, shown, exit_code>>

\* mutant of Send: the failure path returns without closing the descriptor
Send_NoCloseOnFailure ==
    /\ pc = "send"
    /\ request' = cmd_with_newline(command)
    /\ \E ok \in BOOLEAN :
          IF ok
          THEN /\ ops' = Append(ops, Call("send", Len(request')))
               /\ pc' = "recv"
               /\ UNCHANGED <<sock, shown, exit_code>>
          ELSE /\ ops' = Append(ops, Call("send", -1))
               /\ show_error_dialog(TITLE, MSG_CONNECT)
               /\ Return(1)
               /\ UNCHANGED sock
    /\ UNCHANGED <<env, command, socket_path, timeout_set, received, response>>

\* mutant of Send: a failed send is tried a second time
Send_RetryOnce ==
    /\ pc = "send"
    /\ request' = cmd_with_newline(command)
    /\ \E ok \in BOOLEAN :
          IF ok
          THEN /\ ops' = Append(ops, Call("send", Len(request')))
               /\ pc' = "recv"
               /\ UNCHANGED <<sock, shown, exit_code>>
          ELSE IF \A i \in DOMAIN ops : ops[i].op # "send"
          THEN /\ ops' = Append(ops, Call("send", -1))
               /\ UNCHANGED <<pc, sock, shown, exit_code>>
          ELSE /\ ops' = ops \o <<Call("send", -1), Call("close", 0)>>
               /\ sock' = "closed"
               /\ show_error_dialog(TITLE, MSG_CONNECT)
               /\ Return(1)
    /\ UNCHANGED <<env, command, socket_path, timeout_set, received, response>>

\* send_to_daemon: send command with newline; on failure close and fail
Send ==
    /\ pc = "send"
    /\ request' = cmd_with_newline(command)
    /\ \E ok \in BOOLEAN :
          IF ok
          THEN /\ ops' = Append(ops, Call("send", Len(request')))
               /\ pc' = "recv"
               /\ UNCHANGED <<sock, shown, exit_code>>
          ELSE /\ ops' = ops \o <<Call("send", -1), Call("close", 0)>>
               /\ sock' = "closed"
               /\ show_error_dialog(TITLE, MSG_CONNECT)
               /\ Return(1)
    /\ UNCHANGED <<env, command, socket_path, timeout_set, received, response>>

\* what recv(sock, response, resp_size - 1, 0) can return and store: the bytes
\* of a reply, 0 when the peer closed, -1 on an error or when the timeout
\* expires; without a timeout recv does not return while the peer stays silent
RecvResults(resp_size) ==
    CASE daemon = "reply"  -> {[n |-> Min(Len(r), resp_size - 1),
                                data |-> SubSeq(r, 1, Min(Len(r), resp_size - 1))] :
                                  r \in Replies \ {<<>>}}
      [] daemon = "close"  -> {[n |-> 0, data |-> <<>>]}
      [] daemon = "reset"  -> {[n |-> -1, data |-> <<>>]}
      [] daemon = "silent" -> IF timeout_set THEN {[n |-> -1, data |-> <<>>]} ELSE {}

\* mutant of Recv: a receive that stores nothing fails the relay
Recv_EmptyIsFailure ==
    /\ pc = "recv"
    /\ \E r \in RecvResults(MAX_CMD_LEN) :
          /\ received' = r.data
          /\ response' = IF r.n > 0 THEN r.data ELSE <<>>
          /\ ops' = ops \o <<Call("recv", r.n), Call("close", 0)>>
          /\ IF r.n > 0
             THEN pc' = "check_response" /\ UNCHANGED <<shown, exit_code>>
             ELSE show_error_dialog(TITLE, MSG_CONNECT) /\ Return(1)
    /\ sock' = "closed"
    /\ UNCHANGED <<env, command, socket_path, timeout_set, request>>

\* send_to_daemon: receive response, close, return 0
Recv ==
    /\ pc = "recv"
    /\ \E r \in RecvResults(MAX_CMD_LEN) :
          /\ received' = r.data
          /\ response' = IF r.n > 0 THEN r.data ELSE <<>>
          /\ ops' = ops \o <<Call("recv", r.n), Call("close", 0)>>
    /\ sock' = "closed"
    /\ pc' = "check_response"
    /\ UNCHANGED <<env, command, socket_path, timeout_set, request, shown, exit_code>>

\* main: check response for errors
CheckResponse ==
    /\ pc = "check_response"
    /\ LET r == check_response(response)
       IN  /\ IF r.notify = <<>>
              THEN UNCHANGED shown
              ELSE show_notification(TITLE, r.notify[1])
           /\ response' = r.response
           /\ Return(r.code)
    /\ UNCHANGED <<env, command, socket_path, sock, timeout_set, request, received, ops>>

Next ==
    \/ LocateCommandFile
    \/ ReadCommand
    \/ GetSocketPath
    \/ Access
    \/ Socket
    \/ Connect
    \/ Setsockopt
    \/ Send
    \/ Recv
    \/ CheckResponse

Spec == Init /\ [][Next]_vars

\* main is one sequential thread: a step that can be taken is taken
FairSpec == Spec /\ WF_vars(Next)

----------------------------------------------------------------------------
(* Vocabulary of the properties *)

Calls(op) == {i \in DOMAIN ops : ops[i].op = op}
Called(op) == Calls(op) # {}
Failed(op) == \E i \in Calls(op) : ops[i].rc < 0
Done(op) == \E i \in Calls(op) : ops[i].rc >= 0

Contains(s, t) == \E i \in 1..(Len(s) - Len(t) + 1) : \A k \in 1..Len(t) : s[i + k - 1] = t[k]

Exited == pc = "exit"
NoSocketUse == ~ \E i \in DOMAIN ops : ops[i].op \in {"socket", "connect", "send", "recv"}
Dialog(message) == [kind |-> "dialog", title |-> TITLE, message |-> message]
Notification(message) == [kind |-> "notification", title |-> TITLE, message |-> message]
Mentions(message, line) == \E i \in DOMAIN message : message[i] = line

----------------------------------------------------------------------------
(* C1: a descriptor that socket() returned is closed exactly once before    *)
(* send_to_daemon returns, whichever of connect, send or recv ended the     *)
(* exchange; a descriptor that was never opened is never closed.            *)
C1_DescriptorClosedOnEveryPath ==
    /\ pc \in {"check_response", "exit"} => sock # "open"
    /\ Cardinality(Calls("close")) = (IF sock = "closed" THEN 1 ELSE 0)
    /\ Done("socket") <=> sock # "none"

C1_Witness_SendFailureClosed ==
    /\ Exited
    /\ Failed("send")
    /\ sock = "closed"
    /\ ops[Len(ops)].op = "close"

(* C2: main returns 0 exactly when locate, read, HOME lookup, probe,        *)
(* connect and send succeeded and the bytes received do not contain the     *)
(* error marker; every other finished run returns 1.                        *)
C2_ExitCodeZeroIffRelayedWithoutError ==
    Exited =>
        /\ exit_code \in {0, 1}
        /\ exit_code = 0 <=>
              /\ exe_ok
              /\ file # NoFile /\ file # <<>>
              /\ home # Unset
              /\ sock_exists
              /\ Done("socket") /\ Done("connect") /\ Done("send")
              /\ ~ Contains(received, ERROR_MARKER)

C2_Witness_FullBufferRelayed ==
    /\ Exited
    /\ Done("send")
    /\ Len(received) = MAX_CMD_LEN - 1
    /\ exit_code = 0

(* C3: when the bytes received contain the error marker and a field         *)
(* "message": "X" with X free of quotes, main shows exactly one             *)
(* notification whose message is X and returns 1.                           *)
C3_ExtractsMessageExactly ==
    \A X \in MsgValues :
        (Exited /\ Contains(received, ERROR_MARKER) /\ Contains(received, Field(X)))
            => shown = <<Notification(X)>> /\ exit_code = 1

(* C4: when the send succeeded and the bytes received, possibly none, do    *)
(* not contain the error marker, main returns 0 and shows nothing.          *)
C4_SuccessIsSilent ==
    (Exited /\ Done("connect") /\ Done("send") /\ ~ Contains(received, ERROR_MARKER))
        => exit_code = 0 /\ shown = <<>>

C4_Witness_MessageWithoutError ==
    /\ Exited
    /\ Done("send")
    /\ Contains(received, MESSAGE_MARKER)
    /\ ~ Contains(received, ERROR_MARKER)
    /\ exit_code = 0

(* C5: when the probe finds no socket path, no socket is created, connected,*)
(* written or read, and main returns 1 after one blocking dialog that names *)
(* the daemon start and install commands.                                   *)
C5_MissingSocketStopsBeforeConnecting ==
    Failed("access") =>
        /\ NoSocketUse
        /\ Exited /\ exit_code = 1
        /\ Len(shown) = 1
        /\ shown[1].kind = "dialog"
        /\ Mentions(shown[1].message, "  cwm daemon start")
        /\ Mentions(shown[1].message, "  cwm daemon install")

C5_Witness_ProbeFailed ==
    /\ Exited
    /\ ~ sock_exists
    /\ Failed("access")
    /\ shown = <<Dialog(MSG_NOT_RUNNING)>>

(* C6: when HOME is unset no socket is ever created, connected, written or  *)
(* read, and a finished run returns 1.                                      *)
C6_UnsetHomeNoSocketOperation ==
    home = Unset => NoSocketUse /\ (Exited => exit_code = 1)

C6_Witness_UnsetHomeReported ==
    /\ home = Unset
    /\ Exited
    /\ shown = <<Dialog(MSG_SOCKET_PATH)>>

(* C7: with HOME set to the empty string the socket locator fails as it     *)
(* does for an unset HOME: no socket path is produced and main returns 1    *)
(* after the socket-path dialog.                                            *)
C7_EmptyHomeFails ==
    (/\ home = <<>>
     /\ exe_ok /\ file # NoFile /\ file # <<>>
     /\ pc \notin {"get_command_file_path", "read_command", "get_socket_path"})
        => /\ socket_path = <<>>
           /\ Exited /\ exit_code = 1
           /\ shown[Len(shown)] = Dialog(MSG_SOCKET_PATH)

(* C8: when the command file is missing, cannot be opened or holds no line, *)
(* main returns 1 after exactly one dialog and no notification, without     *)
(* computing the socket path, probing it or opening a connection.           *)
C8_UnreadableCommandFile ==
    (file = NoFile \/ file = <<>>) =>
        /\ ops = <<>>
        /\ socket_path = <<>>
        /\ pc \in {"get_command_file_path", "read_command", "exit"}
        /\ Exited => /\ exit_code = 1
                     /\ Len(shown) = 1
                     /\ shown[1].kind = "dialog"

C8_Witness_EmptyFileRejected ==
    /\ file = <<>>
    /\ Exited
    /\ shown = <<Dialog(MSG_READ)>>

(* C9: for a command file that is one line of at most MAX_CMD_LEN - 1       *)
(* characters, ended by nothing, \n or \r\n, read_command stores the line   *)
(* without its trailing CR and LF characters and changes nothing else.      *)
LineEndings == {<<>>, <<LF>>, <<CR, LF>>}
EndsWith(s, t) == Len(s) >= Len(t) /\ SubSeq(s, Len(s) - Len(t) + 1, Len(s)) = t

C9_CommandIsLineWithoutTrailingNewline ==
    pc = "get_socket_path" =>
        \A ending \in LineEndings :
            LET n == Len(file) - Len(ending)
            IN  (/\ EndsWith(file, ending)
                 /\ n <= MAX_CMD_LEN - 1
                 /\ \A i \in 1..n : file[i] # LF)
                => /\ Len(command) <= n
                   /\ \A i \in 1..Len(command) : command[i] = file[i]
                   /\ \A i \in (Len(command) + 1)..n : file[i] = CR
                   /\ command = <<>> \/ command[Len(command)] \notin {CR, LF}

C9_Witness_LongLine ==
    /\ pc = "get_socket_path"
    /\ file = Fill(MAX_CMD_LEN - 2) \o <<CR, LF>>
    /\ command = Fill(MAX_CMD_LEN - 2)

(* C10: for a command of 0 to MAX_CMD_LEN - 1 characters the bytes handed   *)
(* to send are the command followed by one newline.                         *)
C10_RequestIsCommandPlusNewline ==
    (Called("send") /\ Len(command) <= MAX_CMD_LEN - 1)
        => /\ Len(request) = Len(command) + 1
           /\ request = command \o <<LF>>

(* C11: socket, connect, send and recv are each called at most once in a    *)
(* run, so none is retried after a failure; recv is called only after the   *)
(* send has succeeded, and a run that returns 0 has sent exactly once.      *)
C11_OneSendAtMostOneRecv ==
    /\ \A op \in {"socket", "connect", "send", "recv"} : Cardinality(Calls(op)) <= 1
    /\ \A i \in Calls("recv") : \E j \in Calls("send") : j < i /\ ops[j].rc >= 0
    /\ (Exited /\ exit_code = 0) => Cardinality(Calls("send")) = 1

C11_Witness_FailedSendNotRetried ==
    /\ Exited
    /\ exit_code = 1
    /\ Cardinality(Calls("send")) = 1
    /\ Failed("send")
    /\ ~ Called("recv")

(* C12: when recv returns zero or a negative value after a successful send, *)
(* the response is the empty string and main returns 0 without a dialog or  *)
(* a notification.                                                          *)
C12_EmptyReceiveIsSuccess ==
    (\E i \in Calls("recv") : ops[i].rc <= 0) =>
        /\ Done("send")
        /\ response = <<>>
        /\ pc \in {"check_response", "exit"}
        /\ shown = <<>>
        /\ Exited => exit_code = 0

C12_Witness_TimeoutExitsZero ==
    /\ daemon = "silent"
    /\ timeout_set
    /\ \E i \in Calls("recv") : ops[i].rc < 0
    /\ Exited
    /\ exit_code = 0

(* C13: a run makes at most one presentation call: exactly one dialog when  *)
(* it returns 1 before the response is received, exactly one notification   *)
(* when the response holds the error marker, none when it returns 0.        *)
C13_OnePresentationCallByOutcome ==
    /\ Len(shown) <= 1
    /\ Exited =>
          /\ exit_code = 0 => shown = <<>>
          /\ (exit_code = 1 /\ ~ Called("recv")) =>
                Len(shown) = 1 /\ shown[1].kind = "dialog"
          /\ Contains(received, ERROR_MARKER) =>
                Len(shown) = 1 /\ shown[1].kind = "notification"
          /\ (exit_code = 1 /\ Called("recv")) => Contains(received, ERROR_MARKER)

C13_Witness_ConnectFailureDialog ==
    /\ Exited
    /\ Failed("connect")
    /\ shown = <<Dialog(MSG_CONNECT)>>

(* C14: the message marker is looked for only after the error marker: when  *)
(* no message marker follows the error marker, an earlier one is not used   *)
(* and the notification carries the generic message.                        *)
C14_MessageSearchedAfterErrorMarker ==
    LET e == Strstr(received, 1, ERROR_MARKER)
    IN  (Exited /\ e # 0 /\ Strstr(received, e + Len(ERROR_MARKER), MESSAGE_MARKER) = 0)
            => shown = <<Notification(MSG_FAILED)>>

(* C15: when the response holds the error marker but no message marker, no  *)
(* colon after it, or no quote after the start of the value, main shows the *)
(* notification "Command failed" and returns 1; whatever follows the error  *)
(* marker, there is one notification, no dialog and exit code 1.            *)
Unparseable(r) ==
    LET m == Strstr(r, 1, MESSAGE_MARKER)
        c == Strchr(r, m, COLON)
        b == SkipSpacesQuotes(r, c + 1)
    IN  \/ ~ Contains(r, MESSAGE_MARKER)
        \/ \A i \in m..Len(r) : r[i] # COLON
        \/ \A i \in b..Len(r) : r[i] # QUOTE

C15_UnparseableMessageFallsBack ==
    (Exited /\ Contains(received, ERROR_MARKER)) =>
        /\ exit_code = 1
        /\ Len(shown) = 1
        /\ shown[1].kind = "notification"
        /\ Unparseable(received) => shown = <<Notification(MSG_FAILED)>>

C15_Witness_NoClosingQuote ==
    /\ Exited
    /\ received = ERROR_MARKER \o MESSAGE_MARKER \o <<COLON>>
    /\ shown = <<Notification(MSG_FAILED)>>
    /\ exit_code = 1

(* C16: when socket, connect or send fails, main returns 1 after the one    *)
(* connection-failure dialog; nothing is sent or received after a failed    *)
(* connect, nothing is received after a failed send, and the response is    *)
(* left untouched.                                                          *)
C16_RelayFailureStopsTheExchange ==
    (Failed("socket") \/ Failed("connect") \/ Failed("send")) =>
        /\ Exited /\ exit_code = 1
        /\ shown = <<Dialog(MSG_CONNECT)>>
        /\ ~ Called("recv")
        /\ received = <<>> /\ response = <<>>
        /\ Failed("socket") => ~ Called("connect")
        /\ Failed("connect") => ~ Called("send")

C16_Witness_SocketFailure ==
    /\ Exited
    /\ Failed("socket")
    /\ sock = "none"
    /\ shown = <<Dialog(MSG_CONNECT)>>

(* C17: once the send has succeeded the run reaches its exit, whatever the  *)
(* daemon does and whether or not setting the receive timeout succeeded.    *)
C17_TerminatesAfterSend ==
    Done("send") ~> Exited

(* C18: a command file whose first line is blank is read as the empty       *)
(* command: the run goes on past read_command and the request, once sent,   *)
(* is the single newline; the read-error dialog is shown only for a file    *)
(* from which no line can be read.                                          *)
BlankFirstLine(f) ==
    /\ f # NoFile
    /\ \/ Len(f) >= 1 /\ f[1] = LF
       \/ Len(f) >= 2 /\ f[1] = CR /\ f[2] = LF

C18_BlankLineIsEmptyCommand ==
    /\ (exe_ok /\ BlankFirstLine(file) /\ pc \notin {"get_command_file_path", "read_command"})
          => /\ command = <<>>
             /\ shown # <<Dialog(MSG_READ)>>
             /\ Called("send") => request = <<LF>>
             /\ (home # Unset /\ Exited) => Called("access")
    /\ shown = <<Dialog(MSG_READ)>> => file \in {NoFile, <<>>}

C18_Witness_BlankLineSent ==
    /\ file = <<CR, LF>>
    /\ Done("connect")
    /\ Done("send")
    /\ request = <<LF>>
====
